---- MODULE Spec2Model ----
(***************************************************************************)
(* Giraffe for Rhino (src/src/Giraffe.py): the entity registry             *)
(* (ElementList), the entities (Node, LineElement) and the model assembler *)
(* (StructuralModel.add_objects_from_layer).                               *)
(*                                                                         *)
(* Lengths are integers: a raw coordinate delivered by Rhino is counted in *)
(* units of 1e-6, a coordinate stored in a Node (rounded to 5 decimals) in *)
(* units of 1e-5, and distances are compared by their squares.  A Python   *)
(* object is a record with an "id" field; two records denote the same      *)
(* object iff their ids are equal; a reference holds the id, 0 for None.   *)
(* The constructors' "return self" is taken to be accepted by the          *)
(* interpreter, as it must be for the program to run at all.               *)
(*                                                                         *)
(* Spec is the assembler: calls of add_objects_from_layer, one after the   *)
(* other, each a call step, one step per pass of its loop over the layer's *)
(* objects (the list Rhino gives is read one object per pass) and a return *)
(* step; pc keeps the steps of one call together.                          *)
(* SpecReg is the Node registry alone, driven by add calls whose elements  *)
(* carry a group number: the assembler itself leaves every grp at -1.      *)
(* SpecExp is the Node registry driven by add calls whose Nodes carry a    *)
(* layer, and exported: export returns text, modelled as the string the    *)
(* code builds.  Spec exports the whole model between two ingestions.      *)
(***************************************************************************)
EXTENDS Integers, Sequences, FiniteSets, TLC

\* ---------------------------------------------------------------- bounds
\* line elements kept in a line-element registry
MaxBeams == 2

\* ------------------------------------------------------- module constants
plural_to_sofi ==
  [nodes |-> "node", beams |-> "beam", trusses |-> "trus",
   cables |-> "cabl", springs |-> "spri", quads |-> "quad"]

line_elements == {"beams", "trusses", "cables"}

\* 0.1, in units of 1e-5
tolerance == 10000

\* the number of an element whose label gives none
NoNumber == -1

\* -------------------------------------------------------------- entities
\* A Rhino object handed to a constructor as geo: guid is FALSE for None;
\* no, name and prop are what ri.RhinoInput decodes from the object's name
\* (get_no gives -1 when the name holds no number).
Geos ==
  { [guid |-> TRUE, no |-> NoNumber, name |-> "", prop |-> ""],
    [guid |-> TRUE, no |-> 1, name |-> "A", prop |-> "fix pp"],
    [guid |-> TRUE, no |-> 2, name |-> "", prop |-> ""] }

None == [guid |-> FALSE, no |-> NoNumber, name |-> "", prop |-> ""]

\* round(c, 5) of a coordinate given in units of 1e-6, in units of 1e-5
Round5(c) == IF c >= 0 THEN (c + 5) \div 10 ELSE 0 - ((5 - c) \div 10)

\* StructuralElement.__init__ followed by build_base
StructuralElement(id, geo, typ, grp) ==
  [id |-> id, typ |-> typ, grp |-> grp,
   no |-> IF geo.guid THEN geo.no ELSE NoNumber,
   prop |-> IF geo.guid THEN geo.prop ELSE "",
   name |-> IF geo.guid THEN geo.name ELSE "",
   strict_naming |-> IF geo.guid THEN geo.no # NoNumber ELSE FALSE,
   layer |-> 0]

\* Node.__init__ and Node.build: the base is built with typ "node" and the
\* default grp; coordinates is the point of the Rhino object or the one passed.
Node(id, geo, coordinates) ==
  LET base == StructuralElement(id, geo, "node", -1)
  IN [id |-> base.id, typ |-> base.typ, grp |-> base.grp, no |-> base.no,
      prop |-> base.prop, name |-> base.name,
      strict_naming |-> base.strict_naming, layer |-> base.layer,
      x |-> Round5(coordinates[1]), y |-> Round5(coordinates[2]),
      z |-> Round5(coordinates[3])]

\* LineElement.__init__: n1 and n2 are None until the assembler sets them.
LineElement(id, geo, typ) ==
  LET base == StructuralElement(id, geo, typ, -1)
  IN [id |-> base.id, typ |-> base.typ, grp |-> base.grp, no |-> base.no,
      prop |-> base.prop, name |-> base.name,
      strict_naming |-> base.strict_naming, layer |-> base.layer,
      n1 |-> 0, n2 |-> 0]

\* Node.distance_to, squared
distance_to_sq(self, n) ==
  (self.x - n.x) * (self.x - n.x) + (self.y - n.y) * (self.y - n.y)
    + (self.z - n.z) * (self.z - n.z)

\* Node.identical_to with <= in the place of <
Node_identical_to_inclusive(self, n) ==
  distance_to_sq(self, n) <= tolerance * tolerance

\* Node.identical_to: distance_to(n) < tolerance
Node_identical_to(self, n) == distance_to_sq(self, n) < tolerance * tolerance

\* LineElement.identical_to taking a line element for its reverse as well
LineElement_identical_to_undirected(self, elem) ==
  \/ self.n1 = elem.n1 /\ self.n2 = elem.n2
  \/ self.n1 = elem.n2 /\ self.n2 = elem.n1

\* LineElement.identical_to: n1 and n2 hold Node objects, compared by identity
LineElement_identical_to(self, elem) == self.n1 = elem.n1 /\ self.n2 = elem.n2

\* element.identical_to(item), dispatched on the class of element
identical_to(self, item) ==
  IF self.typ = "node" THEN Node_identical_to(self, item)
  ELSE LineElement_identical_to(self, item)

\* -------------------------------------------------------------- registry
\* ElementList.__init__; list is _list and errors is _errors
ElementList(name) == [name |-> name, list |-> <<>>, errors |-> <<>>]

RECURSIVE get_identical_from(_, _, _)
get_identical_from(list, element, i) ==
  IF i > Len(list) THEN 0
  ELSE IF identical_to(element, list[i]) THEN i
  ELSE get_identical_from(list, element, i + 1)

\* get_identical_to looking at the last item only
get_identical_to_last(self, element) ==
  IF self.list # <<>> /\ identical_to(element, self.list[Len(self.list)])
  THEN Len(self.list) ELSE 0

\* ElementList.get_identical_to: the position of the first identical item, 0
\* for None
get_identical_to(self, element) == get_identical_from(self.list, element, 1)

\* is_taken_number looking at the number only, in whatever group
is_taken_number_any_group(self, number, grp) ==
  \E i \in 1..Len(self.list) : self.list[i].no = number

\* ElementList.is_taken_number
is_taken_number(self, number, grp) ==
  \E i \in 1..Len(self.list) :
    self.list[i].no = number /\ self.list[i].grp = grp

RECURSIVE get_available_from(_, _, _)
get_available_from(self, number, grp) ==
  IF is_taken_number(self, number, grp)
  THEN get_available_from(self, number + 1, grp)
  ELSE number

\* get_available_number counting the list instead of searching it
get_available_number_by_count(self, grp) == Len(self.list) + 1

\* ElementList.get_available_number: the loop starts at 1
get_available_number(self, grp) == get_available_from(self, 1, grp)

RECURSIVE get_conflicting_from(_, _, _)
get_conflicting_from(list, new_element, i) ==
  IF i > Len(list) THEN 0
  ELSE IF list[i].no = new_element.no /\ list[i].grp = new_element.grp THEN i
  ELSE get_conflicting_from(list, new_element, i + 1)

\* ElementList.get_conflicting_element: position of the first element with
\* the number and group of new_element, 0 for None
get_conflicting_element(self, new_element) ==
  get_conflicting_from(self.list, new_element, 1)

\* ElementList.add_number: the element with its new number
add_number(self, element) ==
  [element EXCEPT !.no = get_available_number(self, element.grp)]

\* The text appended to _errors, kept as its parts: str(existing_element.no)
\* and str(new_element.no) as they are when the text is built.
ConflictWarning(existing_no, new_no) ==
  [text |-> "Numbering conflict, node number changed", old |-> existing_no,
   new |-> new_no]

\* resolve_numbering_conflict without its test: the element in the list is
\* renumbered, strict or not
resolve_renumbering_existing(self, existing, new_element) ==
  [self |-> [self EXCEPT !.list[existing] = add_number(self, @)],
   new_element |-> new_element]

\* resolve_numbering_conflict without its test: the new element is
\* renumbered and the warning appended, whatever the element in the list
resolve_renumbering_new(self, existing, new_element) ==
  LET renumbered == add_number(self, new_element)
  IN [self |-> [self EXCEPT !.errors =
                  Append(@, ConflictWarning(self.list[existing].no,
                                            renumbered.no))],
      new_element |-> renumbered]

\* resolve_numbering_conflict with the warning appended after either rule
resolve_always_warning(self, existing, new_element) ==
  IF ~ self.list[existing].strict_naming
  THEN LET renumbered == add_number(self, self.list[existing])
       IN [self |-> [self EXCEPT !.list[existing] = renumbered,
                                 !.errors =
                       Append(@, ConflictWarning(new_element.no,
                                                 renumbered.no))],
           new_element |-> new_element]
  ELSE LET renumbered == add_number(self, new_element)
       IN [self |-> [self EXCEPT !.errors =
                       Append(@, ConflictWarning(self.list[existing].no,
                                                 renumbered.no))],
           new_element |-> renumbered]

\* ElementList.resolve_numbering_conflict: existing is the position of the
\* element already in the list.  Yields the registry and the new element.
resolve_numbering_conflict(self, existing, new_element) ==
  IF ~ self.list[existing].strict_naming
  THEN [self |-> [self EXCEPT !.list[existing] = add_number(self, @)],
        new_element |-> new_element]
  ELSE LET renumbered == add_number(self, new_element)
       IN [self |-> [self EXCEPT !.errors =
                       Append(@, ConflictWarning(self.list[existing].no,
                                                 renumbered.no))],
           new_element |-> renumbered]

\* add handing back the element it was given when an identical one is stored
add_returning_new(self, new_element) ==
  LET identical == get_identical_to(self, new_element)
  IN IF identical # 0
     THEN [self |-> self, ret |-> new_element, new_element |-> new_element]
     ELSE LET numbered ==
                IF new_element.no = NoNumber
                THEN [self |-> self, new_element |-> add_number(self, new_element)]
                ELSE LET conflict == get_conflicting_element(self, new_element)
                     IN IF conflict # 0
                        THEN resolve_numbering_conflict(self, conflict, new_element)
                        ELSE [self |-> self, new_element |-> new_element]
          IN [self |-> [numbered.self EXCEPT !.list =
                          Append(@, numbered.new_element)],
              ret |-> numbered.new_element,
              new_element |-> numbered.new_element]

\* add giving the new element its number before it looks for an identical
\* item
add_numbering_first(self, new_element) ==
  LET numbered ==
        IF new_element.no = NoNumber
        THEN [self |-> self, new_element |-> add_number(self, new_element)]
        ELSE LET conflict == get_conflicting_element(self, new_element)
             IN IF conflict # 0
                THEN resolve_numbering_conflict(self, conflict, new_element)
                ELSE [self |-> self, new_element |-> new_element]
      identical == get_identical_to(numbered.self, numbered.new_element)
  IN IF identical # 0
     THEN [self |-> numbered.self, ret |-> numbered.self.list[identical],
           new_element |-> numbered.new_element]
     ELSE [self |-> [numbered.self EXCEPT !.list =
                       Append(@, numbered.new_element)],
           ret |-> numbered.new_element,
           new_element |-> numbered.new_element]

\* ElementList.add: yields the registry, the element returned and the
\* element given, as the call leaves it
add(self, new_element) ==
  LET identical == get_identical_to(self, new_element)
  IN IF identical # 0
     THEN [self |-> self, ret |-> self.list[identical],
           new_element |-> new_element]
     ELSE LET numbered ==
                IF new_element.no = NoNumber
                THEN [self |-> self, new_element |-> add_number(self, new_element)]
                ELSE LET conflict == get_conflicting_element(self, new_element)
                     IN IF conflict # 0
                        THEN resolve_numbering_conflict(self, conflict, new_element)
                        ELSE [self |-> self, new_element |-> new_element]
          IN [self |-> [numbered.self EXCEPT !.list =
                          Append(@, numbered.new_element)],
              ret |-> numbered.new_element,
              new_element |-> numbered.new_element]

\* ------------------------------------------------------------- assembler
\* GiraffeLayer.__init__: path is name.split("::"), depth its length.  no is
\* what ri.RhinoInput(path[2]).get_no() gives for a layer of depth 3.
GiraffeLayer(id, path, no) == [id |-> id, path |-> path, depth |-> Len(path), no |-> no]

\* GiraffeLayer.get_grp
get_grp(layer) == IF layer.depth > 2 THEN layer.no ELSE -1

\* the largest of a finite set of naturals, 0 for the empty set
Max(S) == IF S = {} THEN 0 ELSE CHOOSE m \in S : \A k \in S : k <= m

Ids(list) == {list[i].id : i \in 1..Len(list)}

\* The identity of a Node object being constructed: one no live Node has.
\* Live are the Nodes a registry holds and those a line element refers to.
NewNodeId(nodes_, beams_, held) ==
  1 + Max(Ids(nodes_.list) \cup held
          \cup {beams_.list[i].n1 : i \in 1..Len(beams_.list)}
          \cup {beams_.list[i].n2 : i \in 1..Len(beams_.list)})

NewLineId(beams_) == 1 + Max(Ids(beams_.list))

\* add_objects_from_layer, one pass of the loop of a "nodes" layer
\* (lines 582-589): obj is the object of this pass
add_node_object(nodes_, beams_, layer_, obj) ==
  IF obj.otype = 1
  THEN LET n == [Node(NewNodeId(nodes_, beams_, {}), obj.geo, obj.p)
                   EXCEPT !.layer = layer_.id]
       IN [nodes |-> add(nodes_, n).self, beams |-> beams_]
  ELSE [nodes |-> nodes_, beams |-> beams_]

\* the pass of the line-element loop with the Nodes it built handed to the
\* line element, instead of the Nodes that self.nodes.add returned
add_line_object_own_nodes(nodes_, beams_, layer_, obj) ==
  IF obj.otype = 4
  THEN LET typ_sofi == plural_to_sofi[layer_.path[2]]
           bm == [LineElement(NewLineId(beams_), obj.geo, typ_sofi)
                    EXCEPT !.layer = layer_.id]
           n1 == Node(NewNodeId(nodes_, beams_, {}), None, obj.p)
           a1 == add(nodes_, n1)
           n2 == Node(NewNodeId(a1.self, beams_, {n1.id}), None, obj.q)
           a2 == add(a1.self, n2)
           a3 == add(beams_, [bm EXCEPT !.n1 = n1.id, !.n2 = n2.id])
       IN [nodes |-> a2.self, beams |-> a3.self]
  ELSE [nodes |-> nodes_, beams |-> beams_]

\* add_objects_from_layer, one pass of the loop of a line-element layer
\* (lines 593-606): both registries after the pass
add_line_object(nodes_, beams_, layer_, obj) ==
  IF obj.otype = 4
  THEN LET typ_sofi == plural_to_sofi[layer_.path[2]]
           bm == [LineElement(NewLineId(beams_), obj.geo, typ_sofi)
                    EXCEPT !.layer = layer_.id]
           a1 == add(nodes_, Node(NewNodeId(nodes_, beams_, {}), None, obj.p))
           a2 == add(a1.self,
                     Node(NewNodeId(a1.self, beams_, {a1.ret.id}), None, obj.q))
           a3 == add(beams_, [bm EXCEPT !.n1 = a1.ret.id, !.n2 = a2.ret.id])
       IN [nodes |-> a2.self, beams |-> a3.self]
  ELSE [nodes |-> nodes_, beams |-> beams_]

\* ---------------------------------------------------------------- inputs
\* points of the Rhino document, in units of 1e-6
pA == <<0, 0, 0>>
pB == <<0, 0, 99994>>
pC == <<0, 0, 100000>>
pD == <<300000, 0, 0>>
RawPoints == {pA, pB, pC, pD}

\* curves of the Rhino document, start point and end point
Curves == {<<pA, pD>>, <<pD, pA>>, <<pB, pD>>, <<pA, pB>>}

\* The objects a layer may hold.  rs.ObjectType: 1 a point, 4 a curve, 8 a
\* surface
Objects ==
  [otype : {1}, geo : {g \in Geos : g.no < 2}, p : {pA, pB, pD}, q : {pA}]
  \cup {[otype |-> 4, geo |-> g, p |-> c[1], q |-> c[2]] :
          g \in {g \in Geos : g.no = NoNumber}, c \in Curves}
  \cup [otype : {8}, geo : {g \in Geos : g.no = NoNumber}, p : {pA}, q : {pA}]

Layers ==
  { GiraffeLayer(1, <<"input", "nodes", "1 deck">>, 1),
    GiraffeLayer(2, <<"input", "nodes", "2 mast">>, 2),
    GiraffeLayer(3, <<"input", "beams", "1 deck">>, 1),
    GiraffeLayer(4, <<"input", "trusses", "2 mast">>, 2),
    GiraffeLayer(5, <<"input", "springs">>, -1),
    GiraffeLayer(6, <<"input", "loads">>, -1),
    GiraffeLayer(7, <<"input">>, -1),
    GiraffeLayer(8, <<"sketch", "nodes">>, -1) }

NoLayer == GiraffeLayer(0, <<>>, -1)

\* group numbers a caller of ElementList.add gives its elements
Groups == {-1, 1}

\* ---------------------------------------------------------------- export
\* the layer object an element's layer attribute refers to
LayerById(id) == CHOOSE l \in Layers : l.id = id

\* What ri.RhinoInput(label) decodes from the last component of a layer's
\* name, for the layers in use
LayerLabels ==
  ("nodes" :> [name |-> "nodes", prop |-> ""])
  @@ ("beams" :> [name |-> "beams", prop |-> ""])
  @@ ("trusses" :> [name |-> "trusses", prop |-> ""])
  @@ ("springs" :> [name |-> "springs", prop |-> ""])
  @@ ("loads" :> [name |-> "loads", prop |-> ""])
  @@ ("input" :> [name |-> "input", prop |-> ""])
  @@ ("1 deck" :> [name |-> "deck", prop |-> ""])
  @@ ("2 mast" :> [name |-> "mast", prop |-> "ncs 2"])

\* GiraffeLayer.get_name: self.last is path[depth - 1]
get_name(layer_) == LayerLabels[layer_.path[layer_.depth]].name

\* GiraffeLayer.get_prop
get_prop(layer_) ==
  IF layer_.depth = 2 THEN "" ELSE LayerLabels[layer_.path[layer_.depth]].prop

\* GiraffeLayer.get_type
get_type(layer_) == plural_to_sofi[layer_.path[2]]

\* str of an integer
str(n) == ToString(n)

\* the last w decimal digits of r
RECURSIVE digits(_, _)
digits(r, w) == IF w = 0 THEN "" ELSE digits(r \div 10, w - 1) \o str(r % 10)

\* the decimals of a fraction of w digits, without the zeros at its end
RECURSIVE decimals(_, _)
decimals(r, w) ==
  IF r = 0 THEN ""
  ELSE IF r % 10 = 0 THEN decimals(r \div 10, w - 1)
  ELSE digits(r, w)

\* str of a float that round(c, 5) gave, c in units of 1e-5: the shortest
\* decimal text, with an exponent below 0.0001
str_float(c) ==
  LET m == IF c < 0 THEN 0 - c ELSE c
      sign == IF c < 0 THEN "-" ELSE ""
  IN IF m > 0 /\ m < 10 THEN sign \o str(m) \o "e-05"
     ELSE sign \o str(m \div 100000) \o "."
            \o (IF m % 100000 = 0 THEN "0" ELSE decimals(m % 100000, 5))

\* GiraffeLayer.export
GiraffeLayer_export(layer_) ==
  LET name == get_name(layer_)
      grp == get_grp(layer_)
      typ == get_type(layer_)
      prop == get_prop(layer_)
      grp_string == IF grp # -1 THEN "grp " \o str(grp) ELSE ""
  IN "\n\n!*!Label " \o layer_.path[2] \o " .. " \o grp_string \o " .. "
       \o name \o "\n"
       \o (IF grp_string # "" THEN grp_string \o "\n" ELSE "")
       \o (IF prop # "" THEN typ \o " prop " \o prop \o "\n" ELSE "")

\* StructuralElement.export_base
export_base(self) == self.typ \o " no " \o str(self.no)

\* Node.export_coordinates
export_coordinates(self) ==
  "x " \o str_float(self.x) \o "*#conversion_factor"
    \o " y " \o str_float(self.y) \o "*#conversion_factor"
    \o " z " \o str_float(self.z) \o "*#conversion_factor"

\* Node.export
Node_export(self) ==
  LET output == export_base(self) \o " " \o export_coordinates(self) \o " "
                  \o self.prop
  IN IF self.name # "" THEN output \o "$ " \o self.name ELSE output

\* the Node object that a line element's n1 or n2 holds: Nodes live in the
\* Node registry nodes_, which keeps their numbers
NodeById(nodes_, id) ==
  nodes_.list[CHOOSE i \in 1..Len(nodes_.list) : nodes_.list[i].id = id]

\* LineElement.export
LineElement_export(self, nodes_) ==
  LET output == export_base(self)
                  \o " na " \o str(NodeById(nodes_, self.n1).no)
                  \o " ne " \o str(NodeById(nodes_, self.n2).no)
                  \o " " \o self.prop
  IN IF self.name # "" THEN output \o "$ " \o self.name ELSE output

\* item.export(), dispatched on the class of item
item_export(item, nodes_) ==
  IF item.typ = "node" THEN Node_export(item)
  ELSE LineElement_export(item, nodes_)

\* the text that resolve_numbering_conflict appended to _errors
error_text(item) ==
  "Numbering conflict, node number " \o str(item.old) \o " changed to "
    \o str(item.new) \o "."

\* ElementList.export, the loop over _errors from the i-th on
RECURSIVE export_errors(_, _)
export_errors(errors, i) ==
  IF i > Len(errors) THEN ""
  ELSE "$ " \o error_text(errors[i]) \o "\n" \o export_errors(errors, i + 1)

\* the loop over _list with every layer's label written once, at the first
\* of its items
RECURSIVE export_items_label_once(_, _, _, _)
export_items_label_once(list, i, current_layer, nodes_) ==
  IF i > Len(list) THEN ""
  ELSE LET seen == {list[k].layer : k \in 1..(i - 1)}
       IN (IF list[i].layer # 0 /\ list[i].layer \notin seen
           THEN GiraffeLayer_export(LayerById(list[i].layer)) ELSE "")
          \o item_export(list[i], nodes_) \o "\n"
          \o export_items_label_once(list, i + 1, list[i].layer, nodes_)

\* ElementList.export, the loop over _list from the i-th item on;
\* current_layer is the id of the layer held by the variable of that name
\* when the pass begins, 0 for None, -1 for the -1 it starts with
RECURSIVE export_items(_, _, _, _)
export_items(list, i, current_layer, nodes_) ==
  IF i > Len(list) THEN ""
  ELSE LET previous_layer == current_layer
           item_layer == list[i].layer
       IN (IF item_layer # 0 /\ ~ (previous_layer = item_layer)
           THEN GiraffeLayer_export(LayerById(item_layer)) ELSE "")
          \o item_export(list[i], nodes_) \o "\n"
          \o export_items(list, i + 1, item_layer, nodes_)

\* ElementList.export writing the warnings out of _errors
ElementList_export_draining(self, nodes_) ==
  [self |-> [self EXCEPT !.errors = <<>>],
   output |-> export_errors(self.errors, 1)
                \o export_items(self.list, 1, -1, nodes_) \o "\n"]

\* ElementList.export: the registry, which no statement of it assigns to,
\* and the text returned
ElementList_export(self, nodes_) ==
  [self |-> self,
   output |-> export_errors(self.errors, 1)
                \o export_items(self.list, 1, -1, nodes_) \o "\n"]

\* rs.UnitSystem() of the document: 4, meters
UnitSystem == 4

\* StructuralModel.unit_conversion, each factor as str() writes it
unit_conversion ==
  (2 :> "0.001") @@ (3 :> "0.01") @@ (4 :> "1.0") @@ (8 :> "0.0254")
  @@ (9 :> "0.3048")

\* StructuralModel.__init__: output_header of the model that Main builds
output_header ==
  "$ generated by Giraffe for Rhino\n"
    \o "+prog sofimsha\nhead " \o "structure" \o "\n\nsyst init gdiv 1000\n"
    \o "\nlet#conversion_factor " \o unit_conversion[UnitSystem]

output_footer == "\nend"

\* StructuralModel.export: both registries and the text returned
StructuralModel_export(nodes_, beams_) ==
  LET n == ElementList_export(nodes_, nodes_)
      b == ElementList_export(beams_, n.self)
  IN [nodes |-> n.self, beams |-> b.self,
      output |-> output_header \o n.output \o b.output \o output_footer]

\* ----------------------------------------------------------------- state
VARIABLES
  nodes,   \* StructuralModel.nodes
  beams,   \* StructuralModel.beams
  pc,      \* where add_objects_from_layer stands: "idle", "loop", "raised"
  layer,   \* the layer of the call in progress
  call     \* the last step taken; a call's arguments and what it gave

vars == <<nodes, beams, pc, layer, call>>

\* StructuralModel.__init__
Init ==
  /\ nodes = ElementList("Nodes")
  /\ beams = ElementList("Beams")
  /\ pc = "idle"
  /\ layer = NoLayer
  /\ call = [op |-> "init"]

\* add_objects_from_layer(l) is called on a layer that is not model input:
\* the call returns at once
CallIgnored(l) ==
  /\ pc = "idle"
  /\ ~ (l.depth > 1 /\ l.path[1] = "input")
  /\ call' = [op |-> "add_objects_from_layer", layer |-> l, raised |-> ""]
  /\ UNCHANGED <<nodes, beams, pc, layer>>

\* ... on an input layer whose type is no key of plural_to_sofi: the lookup
\* raises KeyError, which nothing catches
CallRaises(l) ==
  /\ pc = "idle"
  /\ l.depth > 1 /\ l.path[1] = "input"
  /\ l.path[2] \notin DOMAIN plural_to_sofi
  /\ pc' = "raised"
  /\ call' = [op |-> "add_objects_from_layer", layer |-> l, raised |-> "KeyError"]
  /\ UNCHANGED <<nodes, beams, layer>>

\* ... on an input layer of a known type that is neither "nodes" nor a line
\* element: neither loop runs
CallNoLoop(l) ==
  /\ pc = "idle"
  /\ l.depth > 1 /\ l.path[1] = "input"
  /\ l.path[2] \in DOMAIN plural_to_sofi
  /\ l.path[2] # "nodes" /\ l.path[2] \notin line_elements
  /\ call' = [op |-> "add_objects_from_layer", layer |-> l, raised |-> ""]
  /\ UNCHANGED <<nodes, beams, pc, layer>>

\* ... on a "nodes" or line-element layer: the loop over its objects starts
CallLoop(l) ==
  /\ pc = "idle"
  /\ l.depth > 1 /\ l.path[1] = "input"
  /\ l.path[2] \in DOMAIN plural_to_sofi
  /\ l.path[2] = "nodes" \/ l.path[2] \in line_elements
  /\ pc' = "loop"
  /\ layer' = l
  /\ call' = [op |-> "add_objects_from_layer", layer |-> l, raised |-> ""]
  /\ UNCHANGED <<nodes, beams>>

\* one pass of the loop over the objects of a "nodes" layer, obj the next
\* object of the list that layer.get_geometry() gave
NodeLoop(obj) ==
  /\ pc = "loop"
  /\ layer.path[2] = "nodes"
  /\ LET m == add_node_object(nodes, beams, layer, obj)
     IN nodes' = m.nodes /\ beams' = m.beams
  /\ call' = [op |-> "object"]
  /\ UNCHANGED <<pc, layer>>

\* one pass of the loop over the objects of a line-element layer
LineLoop(obj) ==
  /\ pc = "loop"
  /\ layer.path[2] \in line_elements
  /\ LET m == add_line_object(nodes, beams, layer, obj)
     IN /\ Len(m.beams.list) <= MaxBeams
        /\ nodes' = m.nodes /\ beams' = m.beams
  /\ call' = [op |-> "object"]
  /\ UNCHANGED <<pc, layer>>

\* the list of objects is exhausted: add_objects_from_layer returns
Return ==
  /\ pc = "loop"
  /\ pc' = "idle"
  /\ layer' = NoLayer
  /\ call' = [op |-> "return"]
  /\ UNCHANGED <<nodes, beams>>

\* StructuralModel.export is called, as make_file does, between two calls
\* of add_objects_from_layer or after the last
Export ==
  /\ pc = "idle"
  /\ LET e == StructuralModel_export(nodes, beams)
     IN /\ nodes' = e.nodes /\ beams' = e.beams
        /\ call' = [op |-> "export", output |-> e.output]
  /\ UNCHANGED <<pc, layer>>

Next ==
  \/ \E l \in Layers : CallIgnored(l)
  \/ \E l \in Layers : CallRaises(l)
  \/ \E l \in Layers : CallNoLoop(l)
  \/ \E l \in Layers : CallLoop(l)
  \/ \E obj \in Objects : NodeLoop(obj)
  \/ \E obj \in Objects : LineLoop(obj)
  \/ Return
  \/ Export

Spec == Init /\ [][Next]_vars

\* ------------------------------------------- a registry driven directly
\* A caller builds a Node, gives it a group and hands it to nodes.add
RegAddNode(geo, coordinates, grp) ==
  /\ pc = "idle"
  /\ LET new_element == [Node(NewNodeId(nodes, beams, {}), geo, coordinates)
                           EXCEPT !.grp = grp]
         a == add(nodes, new_element)
     IN /\ nodes' = a.self
        /\ call' = [op |-> "add", list |-> "Nodes", new_element |-> new_element,
                    ret |-> a.ret]
  /\ UNCHANGED <<beams, pc, layer>>

NextReg ==
  \E geo \in Geos, coordinates \in RawPoints, grp \in Groups :
    RegAddNode(geo, coordinates, grp)

SpecReg == Init /\ [][NextReg]_vars

\* ------------------------------------ a registry driven and exported
\* the layers that a caller of nodes.add tags its Nodes with, and None
NodeLayers ==
  {NoLayer} \cup {l \in Layers : l.depth > 2 /\ l.path[2] = "nodes"}

\* A caller builds a Node, sets its layer as add_objects_from_layer does,
\* or leaves it None, and hands it to nodes.add
ExpAddNode(geo, coordinates, l) ==
  /\ pc = "idle"
  /\ LET new_element == [Node(NewNodeId(nodes, beams, {}), geo, coordinates)
                           EXCEPT !.layer = l.id]
     IN nodes' = add(nodes, new_element).self
  /\ call' = [op |-> "add"]
  /\ UNCHANGED <<beams, pc, layer>>

\* nodes.export() is called
RegExport ==
  /\ pc = "idle"
  /\ LET e == ElementList_export(nodes, nodes)
     IN /\ nodes' = e.self
        /\ call' = [op |-> "export", output |-> e.output]
  /\ UNCHANGED <<beams, pc, layer>>

NextExp ==
  \/ \E geo \in Geos, coordinates \in RawPoints, l \in NodeLayers :
       ExpAddNode(geo, coordinates, l)
  \/ RegExport

SpecExp == Init /\ [][NextExp]_vars

\* ================================================================ claims
\* what the claims say, in their own terms

\* the entity of a list that is the object with identity id
ById(list, id) == list[CHOOSE i \in 1..Len(list) : list[i].id = id]

IsStored(list, id) == \E i \in 1..Len(list) : list[i].id = id

\* numbers held in group grp
Used(list, grp) == {list[i].no : i \in {k \in 1..Len(list) : list[k].grp = grp}}

\* the smallest positive integer no entity of group grp holds
LowestFree(list, grp) ==
  CHOOSE k \in 1..(Len(list) + 1) :
    k \notin Used(list, grp) /\ \A m \in 1..(k - 1) : m \in Used(list, grp)

\* Euclidean distance strictly below the tolerance
Coincident(a, b) ==
  (a.x - b.x) * (a.x - b.x) + (a.y - b.y) * (a.y - b.y)
    + (a.z - b.z) * (a.z - b.z) < tolerance * tolerance

\* C1: in a registry, no two distinct stored entities have the same
\* (number, group) pair, whatever sequence of add calls built it.
C1_NumberingUnique ==
  \A reg \in {nodes, beams} :
    \A i, j \in 1..Len(reg.list) :
      i # j => ~ (reg.list[i].no = reg.list[j].no
                  /\ reg.list[i].grp = reg.list[j].grp)

\* three Nodes are stored, numbered and unnumbered ones among them, two of
\* one group, and a numbering conflict has been resolved on the way
C1_Witness ==
  /\ Len(nodes.list) = 3
  /\ \E i, j \in 1..3 :
       /\ i # j
       /\ nodes.list[i].strict_naming /\ ~ nodes.list[j].strict_naming
       /\ nodes.list[i].grp = nodes.list[j].grp
  /\ nodes.errors # <<>>

\* C2: no two distinct Nodes of the Node registry are closer than the
\* tolerance, and no two distinct line elements of a line-element registry
\* have the same start Node and the same end Node.
C2_NoDuplicates ==
  /\ \A i, j \in 1..Len(nodes.list) :
       i # j => ~ Coincident(nodes.list[i], nodes.list[j])
  /\ \A i, j \in 1..Len(beams.list) :
       i # j => ~ (beams.list[i].n1 = beams.list[j].n1
                   /\ beams.list[i].n2 = beams.list[j].n2)

\* two line elements are stored, and an end point of one was merged into a
\* Node that a "nodes" layer had brought
C2_Witness ==
  /\ Len(beams.list) = 2
  /\ Len(nodes.list) = 2
  /\ \E i \in 1..2 : ById(nodes.list, beams.list[i].n1).layer # 0

\* ---- claims about one add call on the Node registry (SpecReg): nodes is
\* the registry before the call, nodes' after it, call' the call

\* the call stores its element: no stored Node is identical to it
Stores(list, new) == \A i \in 1..Len(list) : ~ Coincident(new, list[i])

\* the stored entity holding the number and group of new, 0 if none does
Holder(list, new) ==
  IF \E i \in 1..Len(list) : list[i].no = new.no /\ list[i].grp = new.grp
  THEN CHOOSE i \in 1..Len(list) : list[i].no = new.no /\ list[i].grp = new.grp
  ELSE 0

\* errs2 is errs with exactly one warning appended
OneMore(errs, errs2) ==
  Len(errs2) = Len(errs) + 1 /\ SubSeq(errs2, 1, Len(errs)) = errs

\* C3: a new entity with explicit number n is registered while a stored
\* entity with strict_naming true holds (n, group): the new entity is stored
\* with the lowest free number of its group, every stored entity keeps its
\* number, and exactly one warning is appended.
C3_StrictHolderKeeps ==
  [][LET new == call'.new_element
         h == Holder(nodes.list, new)
     IN (/\ call'.op = "add"
         /\ new.no # NoNumber
         /\ Stores(nodes.list, new)
         /\ h # 0
         /\ nodes.list[h].strict_naming)
        => /\ nodes'.list =
                Append(nodes.list,
                       [new EXCEPT !.no = LowestFree(nodes.list, new.grp)])
           /\ OneMore(nodes.errors, nodes'.errors)
           /\ call'.ret = nodes'.list[Len(nodes'.list)]]_vars

\* the last call stored an explicitly numbered element under another number
\* than the one it asked for, and a warning is recorded
C3_Witness ==
  /\ call.op = "add"
  /\ call.new_element.strict_naming
  /\ call.ret.id = call.new_element.id
  /\ call.ret.no # call.new_element.no
  /\ nodes.list[Len(nodes.list)] = call.ret
  /\ nodes.errors # <<>>

\* C4: a new entity with explicit number n is registered while the stored
\* entity holding (n, group) has strict_naming false: that stored entity is
\* renumbered to the lowest positive number free in its group, and the new
\* entity is stored with number n.
C4_AutoHolderYields ==
  [][LET new == call'.new_element
         h == Holder(nodes.list, new)
     IN (/\ call'.op = "add"
         /\ new.no # NoNumber
         /\ Stores(nodes.list, new)
         /\ h # 0
         /\ ~ nodes.list[h].strict_naming)
        => /\ nodes'.list =
                Append([nodes.list EXCEPT
                          ![h].no = LowestFree(nodes.list, new.grp)],
                       new)
           /\ call'.ret = new]_vars

\* the last call stored an explicitly numbered element with its number, and
\* the Node stored first, numbered 1 by the registry when it came, now has
\* another number: it gave way
C4_Witness ==
  /\ call.op = "add"
  /\ call.new_element.strict_naming
  /\ call.ret = call.new_element
  /\ Len(nodes.list) >= 2
  /\ nodes.list[Len(nodes.list)] = call.ret
  /\ ~ nodes.list[1].strict_naming
  /\ nodes.list[1].no > 1
  /\ nodes.list[1].grp = call.ret.grp
  /\ call.ret.no = 1

\* C5 as stated: whenever add finds a stored entity with the (number, group)
\* of the explicitly numbered new entity, exactly one warning is appended,
\* whether the stored entity is strict or not.
C5_EveryConflictWarns ==
  [][LET new == call'.new_element
     IN (/\ call'.op = "add"
         /\ new.no # NoNumber
         /\ Stores(nodes.list, new)
         /\ Holder(nodes.list, new) # 0)
        => OneMore(nodes.errors, nodes'.errors)]_vars

\* C5 amended: such a conflict appends exactly one warning when the stored
\* entity is strict, and none when it is not (it is renumbered silently).
C5_WarnsIffStrictHolder ==
  [][LET new == call'.new_element
         h == Holder(nodes.list, new)
     IN (/\ call'.op = "add"
         /\ new.no # NoNumber
         /\ Stores(nodes.list, new)
         /\ h # 0)
        => IF nodes.list[h].strict_naming
           THEN OneMore(nodes.errors, nodes'.errors)
           ELSE nodes'.errors = nodes.errors]_vars

\* a stored auto-numbered Node has given way to an explicitly numbered one
\* and no warning is recorded
C5_Witness ==
  /\ call.op = "add"
  /\ Len(nodes.list) = 2
  /\ nodes.list[2] = call.ret
  /\ call.ret.strict_naming /\ call.ret.no = 1
  /\ ~ nodes.list[1].strict_naming /\ nodes.list[1].no = 2
  /\ nodes.list[1].grp = call.ret.grp
  /\ nodes.errors = <<>>

\* C6: registering a non-duplicate entity whose number is unassigned stores
\* it with the smallest positive integer that no stored entity of its group
\* holds, and changes nothing else.
C6_LowestFreeNumber ==
  [][LET new == call'.new_element
     IN (/\ call'.op = "add"
         /\ new.no = NoNumber
         /\ Stores(nodes.list, new))
        => /\ nodes'.list =
                Append(nodes.list,
                       [new EXCEPT !.no = LowestFree(nodes.list, new.grp)])
           /\ nodes'.errors = nodes.errors
           /\ call'.ret = nodes'.list[Len(nodes'.list)]]_vars

\* an unnumbered element was stored with number 3: 1 was held by an
\* auto-numbered Node of its group and 2 by an explicitly numbered one
C6_Witness ==
  /\ call.op = "add"
  /\ call.new_element.no = NoNumber
  /\ call.ret.id = call.new_element.id
  /\ call.ret.no = 3
  /\ \E i, j \in 1..Len(nodes.list) :
       /\ nodes.list[i].grp = call.ret.grp /\ nodes.list[j].grp = call.ret.grp
       /\ nodes.list[i].no = 1 /\ ~ nodes.list[i].strict_naming
       /\ nodes.list[j].no = 2 /\ nodes.list[j].strict_naming

\* ---- claims about the assembler (Spec)

\* the numbering-group key of the provenance unit an entity came from;
\* "ungrouped" (-1) for an entity without one
GroupKey(e) == IF e.layer = 0 THEN -1 ELSE get_grp(LayerById(e.layer))

\* C7: an entity ingested from a provenance unit carries the unit's
\* numbering-group key, and numbering runs independently in each group: an
\* unassigned entity that is alone in its group in its registry has number 1.
C7_GroupsCarried ==
  \A reg \in {nodes, beams} :
    \A i \in 1..Len(reg.list) :
      LET e == reg.list[i]
      IN /\ e.layer # 0 => e.grp = GroupKey(e)
         /\ (/\ e.layer # 0
             /\ ~ e.strict_naming
             /\ \A j \in 1..Len(reg.list) :
                  j # i => GroupKey(reg.list[j]) # GroupKey(e))
            => e.no = 1

\* the place where a Node built from a raw point lies
At(p) == [x |-> Round5(p[1]), y |-> Round5(p[2]), z |-> Round5(p[3])]

\* the first Node of list within tolerance of place pos
FirstCoincident(list, pos) ==
  list[CHOOSE i \in 1..Len(list) :
         /\ Coincident(pos, list[i])
         /\ \A j \in 1..(i - 1) : ~ Coincident(pos, list[j])]

\* the curves a layer may hold
CurveObjects == {obj \in Objects : obj.otype = 4}

\* C8: each line-element type has a registry of its own.  After a curve of
\* a layer of some type is ingested, a line element of that type between the
\* Nodes of the curve's end points is stored, whatever the elements of other
\* types; and each type numbers its elements by itself: the first
\* auto-numbered element of a type has number 1.
C8_RegistryPerType ==
  [][\A obj \in CurveObjects :
       (pc = "loop" /\ LineLoop(obj))
       => /\ \E i \in 1..Len(beams'.list) :
               /\ beams'.list[i].typ = plural_to_sofi[layer.path[2]]
               /\ beams'.list[i].n1 = FirstCoincident(nodes'.list, At(obj.p)).id
               /\ beams'.list[i].n2 = FirstCoincident(nodes'.list, At(obj.q)).id
          /\ \A i \in 1..Len(beams'.list) :
               (/\ ~ beams'.list[i].strict_naming
                /\ \A j \in 1..(i - 1) : beams'.list[j].typ # beams'.list[i].typ)
               => beams'.list[i].no = 1]_vars

RecognizedTypes == {"nodes", "beams", "trusses", "cables", "springs", "quads"}

\* C9: ingesting a provenance unit that is not marked as model input, or one
\* that is but whose type tag is no recognized element type, raises no error
\* and leaves both registries, lists and warnings, as they were.
C9_IgnoredWithoutError ==
  [][(/\ call'.op = "add_objects_from_layer"
      /\ \/ call'.layer.path[1] # "input"
         \/ call'.layer.depth < 2
         \/ call'.layer.path[2] \notin RecognizedTypes)
     => /\ call'.raised = ""
        /\ nodes' = nodes
        /\ beams' = beams]_vars

\* every line element's start and end Node are stored in the Node registry
RefIntegrity(nodes_, beams_) ==
  \A i \in 1..Len(beams_.list) :
    /\ IsStored(nodes_.list, beams_.list[i].n1)
    /\ IsStored(nodes_.list, beams_.list[i].n2)

\* n is an anonymous, auto-numbered Node at place pos with number no
Anonymous(n, pos, no) ==
  /\ n.typ = "node" /\ n.x = pos.x /\ n.y = pos.y /\ n.z = pos.z
  /\ n.no = no /\ ~ n.strict_naming
  /\ n.name = "" /\ n.prop = "" /\ n.layer = 0

\* the smallest positive integer outside the finite set S
LowestNotIn(S) ==
  CHOOSE k \in 1..(Cardinality(S) + 1) :
    k \notin S /\ \A m \in 1..(k - 1) : m \in S

\* C10: the start and end Node of every stored line element are stored in
\* the Node registry.  When a curve is ingested, an end point within
\* tolerance of a stored Node resolves to the first such Node and adds none;
\* an end point with no coincident Node adds exactly one auto-numbered Node;
\* the Nodes stored before are untouched.
C10_EndpointSharing ==
  [][/\ RefIntegrity(nodes', beams')
     /\ \A obj \in CurveObjects :
          (pc = "loop" /\ LineLoop(obj))
          => LET L0 == nodes.list
                 L2 == nodes'.list
                 s == At(obj.p)
                 e == At(obj.q)
                 sNew == \A i \in 1..Len(L0) : ~ Coincident(s, L0[i])
                 eNew == /\ \A i \in 1..Len(L0) : ~ Coincident(e, L0[i])
                         /\ ~ (sNew /\ Coincident(e, s))
                 sNo == LowestNotIn(Used(L0, -1))
                 eNo == LowestNotIn(Used(L0, -1)
                                    \cup (IF sNew THEN {sNo} ELSE {}))
             IN /\ Len(L2) = Len(L0) + (IF sNew THEN 1 ELSE 0)
                                     + (IF eNew THEN 1 ELSE 0)
                /\ SubSeq(L2, 1, Len(L0)) = L0
                /\ nodes'.errors = nodes.errors
                /\ sNew => /\ Anonymous(L2[Len(L0) + 1], s, sNo)
                           /\ ~ IsStored(L0, L2[Len(L0) + 1].id)
                /\ eNew => /\ Anonymous(L2[Len(L2)], e, eNo)
                           /\ ~ IsStored(SubSeq(L2, 1, Len(L2) - 1),
                                         L2[Len(L2)].id)
                /\ \E i \in 1..Len(beams'.list) :
                     /\ beams'.list[i].n1 = FirstCoincident(L2, s).id
                     /\ beams'.list[i].n2 = FirstCoincident(L2, e).id]_vars

\* a stored line element starts at a Node that a "nodes" layer had brought
\* and ends at an anonymous Node its own ingestion added
C10_Witness ==
  \E i \in 1..Len(beams.list) :
    /\ IsStored(nodes.list, beams.list[i].n1)
    /\ IsStored(nodes.list, beams.list[i].n2)
    /\ ById(nodes.list, beams.list[i].n1).layer # 0
    /\ ById(nodes.list, beams.list[i].n2).layer = 0
    /\ ~ ById(nodes.list, beams.list[i].n2).strict_naming

\* ---- further claims about add calls on the Node registry (SpecReg)

\* C11: registering N Nodes that all lie within tolerance of the first one
\* registered leaves exactly one stored Node, and each of the N calls returns
\* that first-registered entity.  Step by step: the call on the empty
\* registry stores its Node and returns it; a call with a Node within
\* tolerance of the only stored Node leaves the registry as it was and
\* returns the stored Node, the same object.
C11_DedupIdempotent ==
  [][LET new == call'.new_element
     IN call'.op = "add"
        => /\ nodes.list = <<>>
              => /\ Len(nodes'.list) = 1
                 /\ nodes'.list[1].id = new.id
                 /\ call'.ret = nodes'.list[1]
           /\ (Len(nodes.list) = 1 /\ Coincident(new, nodes.list[1]))
              => /\ nodes' = nodes
                 /\ call'.ret = nodes.list[1]
                 /\ call'.ret.id # new.id]_vars

\* the last call brought a Node lying elsewhere within tolerance of the only
\* stored Node, with a label of its own, and was handed the stored Node
C11_Witness ==
  /\ call.op = "add"
  /\ Len(nodes.list) = 1
  /\ call.ret = nodes.list[1]
  /\ call.ret.id # call.new_element.id
  /\ call.new_element.z # call.ret.z
  /\ call.new_element.no # call.ret.no

\* C12: a Node whose distance to the stored Node equals the tolerance
\* exactly is not merged, both are stored; a Node whose distance is smaller
\* than the tolerance, be it by the smallest amount a stored coordinate can
\* express (1e-5), is merged, only the first is stored.
C12_ToleranceBoundary ==
  [][LET new == call'.new_element
     IN (call'.op = "add" /\ Len(nodes.list) = 1)
        => /\ distance_to_sq(new, nodes.list[1]) = tolerance * tolerance
              => /\ Len(nodes'.list) = 2
                 /\ nodes'.list[2].id = new.id
                 /\ nodes'.list[1].id = nodes.list[1].id
                 /\ call'.ret = nodes'.list[2]
           /\ distance_to_sq(new, nodes.list[1])
                = (tolerance - 1) * (tolerance - 1)
              => /\ nodes'.list = nodes.list
                 /\ call'.ret = nodes.list[1]]_vars

\* two Nodes exactly 0.1 apart are stored, and the last call brought a Node
\* 0.09999 away from the first: it was handed the first
C12_Witness ==
  /\ Len(nodes.list) = 2
  /\ distance_to_sq(nodes.list[1], nodes.list[2]) = tolerance * tolerance
  /\ call.op = "add"
  /\ call.ret = nodes.list[1]
  /\ call.ret.id # call.new_element.id
  /\ distance_to_sq(call.new_element, call.ret)
       = (tolerance - 1) * (tolerance - 1)

\* ---- claims about export

\* C13: export is read-only and deterministic.  An export changes no
\* registry, neither the stored entities, their numbers and order, nor the
\* warnings; and an export that follows an export with no ingestion in
\* between returns the same text.
C13_ExportReadOnly ==
  [][/\ call'.op = "export" => (nodes' = nodes /\ beams' = beams)
     /\ (call.op = "export" /\ call'.op = "export")
        => call'.output = call.output]_vars

\* a model with a warning, a labelled Node of a layer and a line element has
\* been exported
C13_Witness ==
  /\ call.op = "export"
  /\ nodes.errors # <<>>
  /\ beams.list # <<>>
  /\ \E i \in 1..Len(nodes.list) :
       nodes.list[i].layer # 0 /\ nodes.list[i].name # ""

\* ---- claims about the numbers of stored Nodes (SpecReg)

\* the number written in the label of entity e, NoNumber if it gives none:
\* the labels in use that give a number differ in their names, and an
\* entity keeps the name of its label
LabelNo(e) ==
  IF ~ e.strict_naming THEN NoNumber
  ELSE (CHOOSE g \in Geos :
          g.no # NoNumber /\ g.name = e.name /\ g.prop = e.prop).no

\* C14: an explicit user-authored number always wins over an auto-assigned
\* one.  When a new entity whose label gives number n is stored while the
\* stored entity holding (n, group) has its n from the registry and not from
\* its own label (it was numbered automatically, or renumbered after losing
\* an earlier conflict), the new entity is stored with n and the stored
\* entity is renumbered.
C14_ExplicitBeatsAssigned ==
  [][LET new == call'.new_element
         h == Holder(nodes.list, new)
     IN (/\ call'.op = "add"
         /\ new.no # NoNumber
         /\ Stores(nodes.list, new)
         /\ h # 0
         /\ LabelNo(nodes.list[h]) # nodes.list[h].no)
        => /\ call'.ret.id = new.id
           /\ call'.ret.no = new.no
           /\ nodes'.list[Len(nodes'.list)] = call'.ret
           /\ nodes'.list[h].no # new.no]_vars

\* C15 as stated: a Node's number is set once; after the add call that
\* stored it, no later add call changes the number of a stored Node.
C15_NumberSetOnce ==
  [][call'.op = "add"
     => \A i \in 1..Len(nodes.list) :
          /\ nodes'.list[i].id = nodes.list[i].id
          /\ nodes'.list[i].no = nodes.list[i].no]_vars

\* C15 amended: a later add call changes the number of a stored Node in one
\* case only, and then of one Node only: the call stores an explicitly
\* numbered entity and the stored Node holding its (number, group) is not
\* strict; that Node gets the lowest free number of its group.  In every
\* other case, and for every other stored Node, the number stays; nothing
\* but the number of a stored Node ever changes.
C15_RenumberedByRule1Only ==
  [][LET new == call'.new_element
         h == Holder(nodes.list, new)
         yields == /\ new.no # NoNumber
                   /\ Stores(nodes.list, new)
                   /\ h # 0
                   /\ ~ nodes.list[h].strict_naming
     IN call'.op = "add"
        => \A i \in 1..Len(nodes.list) :
             nodes'.list[i] =
               [nodes.list[i] EXCEPT !.no =
                  IF yields /\ i = h
                  THEN LowestFree(nodes.list, new.grp) ELSE @]]_vars

\* three Nodes are stored; the last call stored one labelled 1 with that
\* number, and an unlabelled Node stored before it now has number 3: it held
\* 1 and gave way, 2 being taken
C15_Witness ==
  /\ call.op = "add"
  /\ Len(nodes.list) = 3
  /\ nodes.list[3] = call.ret
  /\ call.ret.strict_naming /\ call.ret.no = 1
  /\ \E i \in 1..2 :
       /\ ~ nodes.list[i].strict_naming
       /\ nodes.list[i].no = 3
       /\ nodes.list[i].grp = call.ret.grp

\* C16: a duplicate registration changes nothing.  When add finds a stored
\* entity identical to the new one, the list, every attribute of every
\* stored entity and the warnings are as before, the stored entity is
\* returned, and the new entity is left as it came, without a number given
\* to it: also when its label gave a number that differs from the stored
\* entity's or that another stored entity holds.
C16_DuplicateChangesNothing ==
  [][LET new == call'.new_element
     IN (call'.op = "add" /\ ~ Stores(nodes.list, new))
        => /\ nodes' = nodes
           /\ IsStored(nodes.list, call'.ret.id)
           /\ call'.ret = ById(nodes.list, call'.ret.id)
           /\ Coincident(new, call'.ret)
           /\ add(nodes, new).new_element = new]_vars

\* the last call brought a duplicate of a stored Node whose label gave a
\* number that is not the stored Node's and that another stored Node holds
C16_Witness ==
  /\ call.op = "add"
  /\ call.ret.id # call.new_element.id
  /\ IsStored(nodes.list, call.ret.id)
  /\ call.new_element.no # NoNumber
  /\ call.new_element.no # call.ret.no
  /\ \E j \in 1..Len(nodes.list) :
       /\ nodes.list[j].id # call.ret.id
       /\ nodes.list[j].no = call.new_element.no
       /\ nodes.list[j].grp = call.new_element.grp

\* C17: first-match order.  A new Node is compared with the stored Nodes
\* only: when it lies within tolerance of several of them, add returns the
\* one stored earliest and stores nothing; and no add call removes or merges
\* Nodes stored before, they keep their places in the list.
C17_FirstMatch ==
  [][LET new == call'.new_element
         near == {i \in 1..Len(nodes.list) : Coincident(new, nodes.list[i])}
     IN call'.op = "add"
        => /\ Cardinality(near) >= 2
              => /\ call'.ret = FirstCoincident(nodes.list, new)
                 /\ \A i \in near : call'.ret.id = nodes.list[i].id
                                    \/ \E j \in 1..(i - 1) :
                                         call'.ret.id = nodes.list[j].id
                 /\ nodes' = nodes
           /\ Len(nodes'.list) >= Len(nodes.list)
           /\ \A i \in 1..Len(nodes.list) :
                nodes'.list[i].id = nodes.list[i].id]_vars

\* the last call brought a Node within tolerance of the first and of the
\* second stored Node, themselves 0.1 apart, and was handed the first
C17_Witness ==
  /\ call.op = "add"
  /\ Len(nodes.list) >= 2
  /\ ~ Coincident(nodes.list[1], nodes.list[2])
  /\ Coincident(call.new_element, nodes.list[1])
  /\ Coincident(call.new_element, nodes.list[2])
  /\ call.ret = nodes.list[1]
  /\ call.ret.id # call.new_element.id

\* ---- a further claim about the assembler (Spec)

\* C18: line-element identity is direction-sensitive.  When a curve is
\* ingested, its line element is merged into a stored one only if that one
\* starts at the same stored Node and ends at the same stored Node; else it
\* is stored, with a number no stored line element has, also when a stored
\* line element joins the same two Nodes the other way round.
C18_DirectionSensitive ==
  [][\A obj \in CurveObjects :
       (pc = "loop" /\ LineLoop(obj))
       => LET s == FirstCoincident(nodes'.list, At(obj.p)).id
              e == FirstCoincident(nodes'.list, At(obj.q)).id
              L0 == beams.list
              L1 == beams'.list
          IN IF \E i \in 1..Len(L0) : L0[i].n1 = s /\ L0[i].n2 = e
             THEN beams' = beams
             ELSE /\ Len(L1) = Len(L0) + 1
                  /\ SubSeq(L1, 1, Len(L0)) = L0
                  /\ L1[Len(L1)].n1 = s /\ L1[Len(L1)].n2 = e
                  /\ \A i \in 1..Len(L0) :
                       /\ L0[i].no # L1[Len(L1)].no
                       /\ L0[i].id # L1[Len(L1)].id]_vars

\* two line elements are stored that join the same two distinct Nodes, one
\* from the first to the second and one back, under different numbers
C18_Witness ==
  \E i, j \in 1..Len(beams.list) :
    /\ beams.list[i].n1 # beams.list[i].n2
    /\ beams.list[i].n1 = beams.list[j].n2
    /\ beams.list[i].n2 = beams.list[j].n1
    /\ beams.list[i].no # beams.list[j].no
    /\ IsStored(nodes.list, beams.list[i].n1)
    /\ IsStored(nodes.list, beams.list[i].n2)

\* ---- a claim about the export of a registry (SpecExp)

\* the texts f[1], ..., f[n] one after the other
RECURSIVE Cat(_, _)
Cat(f, n) == IF n = 0 THEN "" ELSE Cat(f, n - 1) \o f[n]

\* the i-th entity of list has a provenance unit, and it is not the unit of
\* the entity before it
MarkerDue(list, i) ==
  /\ list[i].layer # 0
  /\ i = 1 \/ list[i - 1].layer # list[i].layer

\* C19: the text a registry exports is its warnings, one line each, then
\* its entities in insertion order, one line each, the line of an entity
\* preceded by the marker of its provenance unit exactly when it has a unit
\* and the entity before it has not that very unit (the first entity has
\* none before it); a unit's marker is written again when the unit recurs.
C19_ExportOrdering ==
  [][call'.op = "export"
     => call'.output =
          Cat([i \in 1..Len(nodes.errors) |->
                 "$ " \o error_text(nodes.errors[i]) \o "\n"],
              Len(nodes.errors))
          \o Cat([i \in 1..Len(nodes.list) |->
                    (IF MarkerDue(nodes.list, i)
                     THEN GiraffeLayer_export(LayerById(nodes.list[i].layer))
                     ELSE "")
                    \o Node_export(nodes.list[i]) \o "\n"],
                 Len(nodes.list))
          \o "\n"]_vars

\* a registry with a warning and three Nodes was exported: the first and the
\* third Node are of one layer, the second of another or of none
C19_Witness ==
  /\ call.op = "export"
  /\ nodes.errors # <<>>
  /\ Len(nodes.list) = 3
  /\ nodes.list[1].layer # 0
  /\ nodes.list[3].layer = nodes.list[1].layer
  /\ nodes.list[2].layer # nodes.list[1].layer

\* ---- a last claim about the numbers of stored Nodes (SpecReg)

\* C20: stored explicit numbers are stable.  Once an entity with
\* strict_naming true is stored, no later add call changes its number; a
\* stored entity whose number an add call changes has strict_naming false.
C20_StrictNumbersStable ==
  [][call'.op = "add"
     => \A i \in 1..Len(nodes.list) :
          /\ nodes.list[i].strict_naming
             => /\ nodes'.list[i].id = nodes.list[i].id
                /\ nodes'.list[i].no = nodes.list[i].no
                /\ nodes'.list[i].strict_naming
          /\ nodes'.list[i].no # nodes.list[i].no
             => ~ nodes.list[i].strict_naming]_vars

\* the Node stored first has the 1 of its label, and two Nodes stored after
\* it, in its group and labelled 1 as well, were renumbered on arrival
C20_Witness ==
  /\ Len(nodes.list) = 3
  /\ \A i \in 1..3 :
       /\ nodes.list[i].strict_naming
       /\ LabelNo(nodes.list[i]) = 1
       /\ nodes.list[i].grp = nodes.list[1].grp
       /\ nodes.list[i].no = i
  /\ Len(nodes.errors) = 2

====
